---- MODULE Spec2Model ----
(***************************************************************************)
(* Background task queue of app/services/task_queue.py: the Redis task     *)
(* store (one hash per task, one sorted set per task type), the worker     *)
(* loop with its retry policy, the manager's submit, cancel, start and     *)
(* stop calls, and the cleanup of old records.                             *)
(* A store method (get_task, update_task_status, save_task,                *)
(* get_pending_tasks) is one atomic step; a coroutine's position between   *)
(* two awaited store methods is kept in its pc field.                      *)
(***************************************************************************)
EXTENDS Integers, Sequences, FiniteSets, TLC

\* ---------------------------------------------------------------- bounds
MaxTasks == 2
NumWorkers == 2
NumTypes == 1
MaxRetriesBound == 2
MaxTime == 1
MaxExecs == 2
MaxDays == 2
MaxLimit == 2
MaxStopWait == 1
MaxStarts == 2

\* ------------------------------------------------------- program constants
PriorityWeight == 1000
RetryDelay == 1
LOW == 1
NORMAL == 2
HIGH == 3

Tasks == 1..MaxTasks
WorkerIds == 1..NumWorkers
TaskTypes == 1..NumTypes
NoScore == -1

Statuses == {"PENDING", "RUNNING", "COMPLETED", "FAILED", "RETRYING", "CANCELLED", "TIMEOUT"}
Terminal == {"COMPLETED", "FAILED", "CANCELLED", "TIMEOUT"}
Eligible == {"PENDING", "RETRYING"}

\* TaskConfig; timeout is whether config.timeout is set (the default, 300 s)
\* or None
Configs == [max_retries : 0..MaxRetriesBound, priority : {NORMAL}, task_type : TaskTypes,
            timeout : {TRUE}]
NoConfig == [max_retries |-> 0, priority |-> NORMAL, task_type |-> 1, timeout |-> TRUE]

\* Task.func: "probe" is a task function that counts its calls and the calls
\* it ended by raising (the variables calls, raised); "plain" is any other
Funcs == {"probe", "plain"}

NoResult == [set |-> FALSE, success |-> FALSE, retries_used |-> 0]

\* the fields of a Task that _serialize_task writes to the hash
Absent == [exists |-> FALSE, full |-> FALSE, func |-> "plain", status |-> "PENDING",
           retries |-> 0, error_history |-> <<>>, config |-> NoConfig, created_at |-> 0]

\* a Task object held in a coroutine's memory; worker_id 0 is None
\* None, for a time
NoTime == -1

NoTask == [id |-> 0, func |-> "plain", status |-> "PENDING", retries |-> 0,
           error_history |-> <<>>, config |-> NoConfig, created_at |-> 0,
           result |-> NoResult, worker_id |-> 0, started_at |-> NoTime]

\* Task(id, func, args, kwargs, config, created_at) with the dataclass defaults
NewTask(id, func, cfg, t) ==
    [id |-> id, func |-> func, status |-> "PENDING", retries |-> 0,
     error_history |-> <<>>, config |-> cfg, created_at |-> t, result |-> NoResult,
     worker_id |-> 0, started_at |-> NoTime]

\* store, index: the Redis hashes and sorted sets; now: time.time() in
\* seconds; utc: datetime.utcnow() in days; running: AdvancedTaskQueue.running
\* and the running flag of its workers; mgr: the other fields of the manager;
\* stopc: the stop() call in progress; sweep: the latest cleanup_old_tasks
\* call
VARIABLES store, index, now, running, workers, canc, calls, raised, utc, sweep, mgr, stopc

vars == <<store, index, now, running, workers, canc, calls, raised, utc, sweep, mgr, stopc>>

\* ------------------------------------------------------------ task store
\* _serialize_task: the mapping that save_task writes.  The config is written
\* as json.dumps(asdict(config)), of which the model keeps the field values;
\* the json module's own encoder raises TypeError on the Enum members that
\* priority and task_type are, which is the failure point "dumps" of
\* save_task below.
SerializeTask(task) == [exists |-> TRUE, full |-> TRUE, func |-> task.func,
                        status |-> task.status,
                        retries |-> task.retries, error_history |-> task.error_history,
                        config |-> task.config, created_at |-> task.created_at]

\* result, started_at, completed_at and worker_id are not in the hash: the
\* Task that _deserialize_task builds has the dataclass defaults (None) there
DeserializeTask(id, rec) == [id |-> id, func |-> rec.func, status |-> rec.status,
                             retries |-> rec.retries,
                             error_history |-> rec.error_history, config |-> rec.config,
                             created_at |-> rec.created_at,
                             result |-> NoResult, worker_id |-> 0,
                             started_at |-> NoTime]

\* get_task: None (id 0) for a missing key, and for a hash without all the
\* fields (_deserialize_task raises KeyError, which get_task swallows)
GetTask(s, id) == IF s[id].exists /\ s[id].full THEN DeserializeTask(id, s[id]) ELSE NoTask

\* update_task_status: HSET of the one field, which creates the hash when the
\* key is missing; ok = FALSE is the call failing (logged, returns False)
UpdateTaskStatus(s, id, status, ok) ==
    IF ok THEN [s EXCEPT ![id].exists = TRUE, ![id].status = status] ELSE s

Score(task, t) == task.config.priority * PriorityWeight + t

\* save_task: _serialize_task, HSET of the whole mapping, EXPIRE, ZADD; fp is
\* the call that raises: "dumps" (in _serialize_task), "hset", "zadd", or
\* "none"
SaveStore(s, task, fp) ==
    IF fp \in {"dumps", "hset"} THEN s ELSE [s EXCEPT ![task.id] = SerializeTask(task)]
SaveIndex(ix, task, t, fp) ==
    IF fp = "none" THEN [ix EXCEPT ![task.config.task_type][task.id] = Score(task, t)] ELSE ix

\* save_task returning True for every outcome
SavedAlways(fp) == TRUE

\* what save_task returns: True when no call raised
Saved(fp) == fp = "none"

\* cleanup_old_tasks: the keys whose created_at field is before the cutoff; a
\* hash without the field (HGET returns None) is skipped
Expired(s, cutoff) ==
    {id \in Tasks : s[id].exists /\ s[id].full /\ s[id].created_at < cutoff}

\* cleanup_old_tasks: DELETE of those keys; the sorted sets are not touched
CleanupOldTasks(s, cutoff) ==
    [id \in Tasks |-> IF id \in Expired(s, cutoff) THEN Absent ELSE s[id]]

\* ZRANGE key 0 limit-1: ascending by score, ties by member
Members(ix, ty) == {id \in Tasks : ix[ty][id] # NoScore}
Before(ix, ty, a, b) == \/ ix[ty][a] < ix[ty][b]
                        \/ ix[ty][a] = ix[ty][b] /\ a < b
Rank(ix, ty, id) == Cardinality({o \in Members(ix, ty) : Before(ix, ty, o, id)})
ZRange(ix, ty, limit) == {id \in Members(ix, ty) : Rank(ix, ty, id) < limit}

\* get_pending_tasks without its test of the status
EligibleInAnyStatus(s, ix, ty, limit) ==
    {id \in ZRange(ix, ty, limit) : GetTask(s, id).id # 0}

\* the tasks one partition contributes to get_pending_tasks
EligibleIn(s, ix, ty, limit) ==
    {id \in ZRange(ix, ty, limit) : GetTask(s, id).id # 0 /\ GetTask(s, id).status \in Eligible}

\* get_pending_tasks: partitions in TaskType order, stops at the first
\* partition whose first `limit` ids hold an eligible task (0: none does)
RECURSIVE ScanFrom(_, _, _, _)
ScanFrom(s, ix, ty, limit) ==
    IF ty > NumTypes THEN 0
    ELSE IF EligibleIn(s, ix, ty, limit) # {} THEN ty
    ELSE ScanFrom(s, ix, ty + 1, limit)

\* a get_pending_tasks that leaves out the tasks a worker already holds
GetPendingUnclaimed(s, ix, limit) ==
    IF ScanFrom(s, ix, 1, limit) = 0 THEN {}
    ELSE {id \in EligibleIn(s, ix, ScanFrom(s, ix, 1, limit), limit) :
                \A w \in WorkerIds : workers[w].task.id # id}

GetPendingTasks(s, ix, limit) ==
    IF ScanFrom(s, ix, 1, limit) = 0 THEN {}
    ELSE EligibleIn(s, ix, ScanFrom(s, ix, 1, limit), limit)

\* tasks[0] of the list get_pending_tasks returns
FirstTask(s, ix, limit) ==
    CHOOSE id \in GetPendingTasks(s, ix, limit) :
        \A o \in GetPendingTasks(s, ix, limit) :
            o = id \/ Before(ix, ScanFrom(s, ix, 1, limit), id, o)

\* ------------------------------------------------------------------ Init
\* a worker between two tasks; seen is the value of raised when the worker
\* called the counting task function; delay is the backoff sleep of
\* _handle_task_error, in seconds (0: not in that sleep); current_task is the
\* id of TaskWorker.current_task (0: None); tasks_completed and tasks_failed
\* are the counters of TaskWorker.stats, summed over the TaskWorker objects
\* that the starts of the manager have created with this worker_id
IdleWorker(pc) == [pc |-> pc, task |-> NoTask, seen |-> 0, delay |-> 0, current_task |-> 0,
                   tasks_completed |-> 0, tasks_failed |-> 0]
\* the latest cancel_task call: the id it was given, the status get_task
\* showed it, whether its status update was stored (wrote), what it returned
NoCancel == [pc |-> "ready", id |-> 0, fetched |-> "none", wrote |-> FALSE, ret |-> "none"]

\* AdvancedTaskQueue.__init__: total_tasks_added, total_tasks_completed and
\* total_tasks_failed are the statistics; loops and monitors count the worker
\* loops and the monitoring loops that start() has created.  stats_followed
\* is not a field of the program: the workers' counters are write-only but
\* for get_queue_stats, and they are followed only in the specifications
\* that read them (InitStats); elsewhere they stay 0
NewManager(concurrency, monitoring) ==
    [concurrency |-> concurrency, monitoring |-> monitoring,
     total_tasks_added |-> 0, total_tasks_completed |-> 0, total_tasks_failed |-> 0,
     loops |-> 0, monitors |-> 0, stats_followed |-> FALSE]
\* no cleanup_old_tasks call yet: older_than_days, and the count returned
NoSweep == [days |-> 0, deleted |-> 0]
\* no stop() call in progress; left is the number of 0.1 s sleeps that fit
\* before the deadline of the call; snap is history: the records that were
\* PENDING in the store, and in the hands of no worker, when the call was made
NoSnap == [id \in Tasks |-> Absent]
NoStop == [pc |-> "idle", left |-> 0, snap |-> NoSnap]

\* the state every specification shares but for the constructor arguments
InitWith(concurrency, monitoring) ==
    /\ store = [id \in Tasks |-> Absent]
    /\ index = [ty \in TaskTypes |-> [id \in Tasks |-> NoScore]]
    /\ now = 0
    /\ running = FALSE
    /\ workers = [w \in WorkerIds |-> IdleWorker("none")]
    /\ canc = NoCancel
    /\ calls = 0
    /\ raised = 0
    /\ utc = 0
    /\ sweep = NoSweep
    /\ mgr = NewManager(concurrency, monitoring)
    /\ stopc = NoStop

Init == InitWith(NumWorkers, TRUE)

\* time.time() advancing
Tick ==
    /\ now < MaxTime
    /\ now' = now + 1
    /\ UNCHANGED <<store, index, running, workers, canc, calls, raised, utc, sweep, mgr, stopc>>

\* --------------------------------------------------------- queue manager
\* start() that does not return early when the manager is running
StartsAlways == TRUE

\* `if self.running: return` of start()
Starts == ~running

\* AdvancedTaskQueue.start, with the prologue of every worker.start() it
\* schedules (asyncio runs them before anything that is scheduled later).  A
\* start after a stop is taken once the loops of the earlier start have ended.
Start ==
    /\ Starts
    /\ \A w \in WorkerIds : workers[w].pc \in {"none", "exited"}
    /\ mgr.loops + mgr.concurrency <= MaxStarts * NumWorkers
    /\ mgr.monitors < MaxStarts
    /\ running' = TRUE
    /\ workers' = [w \in WorkerIds |->
                      [IdleWorker(IF w <= mgr.concurrency THEN "poll" ELSE "none") EXCEPT
                            !.tasks_completed = workers[w].tasks_completed,
                            !.tasks_failed = workers[w].tasks_failed]]
    /\ mgr' = [mgr EXCEPT !.loops = @ + mgr.concurrency,
                          !.monitors = IF mgr.monitoring THEN @ + 1 ELSE @]
    /\ UNCHANGED <<store, index, now, canc, calls, raised, utc, sweep, stopc>>

\* AdvancedTaskQueue.add_task: a fresh uuid4, a PENDING task, save_task; a
\* save that reports failure raises RuntimeError
AddTask(id, func, cfg, fp) ==
    /\ ~store[id].exists
    /\ \A ty \in TaskTypes : index[ty][id] = NoScore
    /\ func = "probe" => \A o \in Tasks : ~(store[o].exists /\ store[o].func = "probe")
    /\ store' = SaveStore(store, NewTask(id, func, cfg, utc), fp)
    /\ index' = SaveIndex(index, NewTask(id, func, cfg, utc), now, fp)
    /\ mgr' = [mgr EXCEPT !.total_tasks_added = IF Saved(fp) THEN @ + 1 ELSE @]
    /\ UNCHANGED <<now, running, workers, canc, calls, raised, utc, sweep, stopc>>

\* the status get_task shows cancel_task ("none" when it returns None)
Fetched(s, id) == IF GetTask(s, id).id = 0 THEN "none" ELSE GetTask(s, id).status

\* cancel_task accepting a RUNNING task as well
CancellableAlsoRunning == {"PENDING", "RETRYING", "RUNNING"}

\* the statuses cancel_task accepts
Cancellable == {"PENDING", "RETRYING"}

\* AdvancedTaskQueue.cancel_task up to the end of its get_task: it returns
\* False for a missing task and for a status it does not accept
CancelFetch(id) ==
    /\ canc.pc = "ready"
    /\ canc' = IF Fetched(store, id) \in Cancellable
               THEN [pc |-> "fetched", id |-> id, fetched |-> Fetched(store, id),
                     wrote |-> FALSE, ret |-> "none"]
               ELSE [NoCancel EXCEPT !.id = id, !.ret = "false"]
    /\ UNCHANGED <<store, index, now, running, workers, calls, raised, utc, sweep, mgr, stopc>>

\* cancel_task after get_task: update_task_status(CANCELLED), whose result it
\* drops, then return True
CancelUpdate(ok) ==
    /\ canc.pc = "fetched"
    /\ store' = UpdateTaskStatus(store, canc.id, "CANCELLED", ok)
    /\ canc' = IF ok THEN [canc EXCEPT !.pc = "ready", !.wrote = TRUE, !.ret = "true"]
               ELSE [NoCancel EXCEPT !.ret = "true"]
    /\ UNCHANGED <<index, now, running, workers, calls, raised, utc, sweep, mgr, stopc>>

\* ---------------------------------------------------------------- worker
\* self.stats[...] += 1 of a worker
Counted(n) == IF mgr.stats_followed THEN n + 1 ELSE n

\* `while self.running` of TaskWorker.start, tested at the end of an
\* iteration: the next iteration starts (pc "poll": the worker is in
\* _process_next_task, in its get_pending_tasks call or in its sleep), or the
\* loop ends
LoopTest(w) == [workers EXCEPT ![w].pc = IF running THEN "poll" ELSE "exited",
                                ![w].task = NoTask, ![w].seen = 0, ![w].delay = 0]

\* an _execute_task without its finally clause
Leaves(w) == LoopTest(w)

\* the finally clause of _execute_task: current_task = None, and the loop
\* test that follows it
Finally(w) == [LoopTest(w) EXCEPT ![w].current_task = 0]

\* a worker loop without its except clause: the exception ends the loop
Escapes(w) == [workers EXCEPT ![w].pc = "exited"]

\* `except Exception` of TaskWorker.start: the error is logged, the worker
\* sleeps 1 s and the loop test follows
Caught(w) == LoopTest(w)

\* TaskWorker._process_next_task: the store answers get_pending_tasks(limit=1)
\* of a worker that called it while it was running; nothing to do sleeps
\* 0.1 s, and the loop goes on or ends
ProcessNextTask(w) ==
    /\ workers[w].pc = "poll"
    /\ IF GetPendingTasks(store, index, 1) = {}
       THEN workers' = LoopTest(w)
       ELSE workers' = [workers EXCEPT
                ![w].pc = "claimed",
                ![w].task = GetTask(store, FirstTask(store, index, 1))]
    /\ UNCHANGED <<store, index, now, running, canc, calls, raised, utc, sweep, mgr, stopc>>

\* get_pending_tasks raises (its connect or its ZRANGE; it has no try of its
\* own): the exception leaves _process_next_task
PollRaises(w) ==
    /\ workers[w].pc = "poll"
    /\ workers' = Caught(w)
    /\ UNCHANGED <<store, index, now, running, canc, calls, raised, utc, sweep, mgr, stopc>>

\* _execute_task up to the call of the task function: current_task, status
\* RUNNING, started_at (datetime.utcnow(), in the seconds of now), worker_id
MarkRunning(w, ok) ==
    /\ workers[w].pc = "claimed"
    /\ workers[w].task.func = "probe" => calls < MaxExecs
    /\ store' = UpdateTaskStatus(store, workers[w].task.id, "RUNNING", ok)
    /\ workers' = [workers EXCEPT ![w].pc = "exec", ![w].task.status = "RUNNING",
                                  ![w].task.started_at = now,
                                  ![w].task.worker_id = w,
                                  ![w].current_task = workers[w].task.id,
                                  ![w].seen = IF workers[w].task.func = "probe"
                                              THEN raised ELSE 0]
    /\ calls' = IF workers[w].task.func = "probe" THEN calls + 1 ELSE calls
    /\ UNCHANGED <<index, now, running, canc, raised, utc, sweep, mgr, stopc>>

\* the task function returns: TaskResult(success=True, retries_used=task.retries)
TaskReturns(w) ==
    /\ workers[w].pc = "exec"
    /\ workers' = [workers EXCEPT ![w].pc = "report",
                                  ![w].tasks_completed = Counted(@),
                                  ![w].task.status = "COMPLETED",
                                  ![w].task.result = [set |-> TRUE, success |-> TRUE,
                                          retries_used |-> workers[w].task.retries]]
    /\ UNCHANGED <<store, index, now, running, canc, calls, raised, utc, sweep, mgr, stopc>>

\* asyncio.TimeoutError leaves the try body, raised by the task function
\* itself (own) or by wait_for, which is used when config.timeout is set:
\* _handle_task_timeout up to its status update
TaskTimesOut(w, own) ==
    /\ workers[w].pc = "exec"
    /\ own \/ workers[w].task.config.timeout
    /\ workers' = [workers EXCEPT ![w].pc = "report",
                                  ![w].tasks_failed = Counted(@),
                                  ![w].task.status = "TIMEOUT",
                                  ![w].task.result = [set |-> TRUE, success |-> FALSE,
                                                      retries_used |-> 0]]
    /\ UNCHANGED <<store, index, now, running, canc, calls, raised, utc, sweep, mgr, stopc>>

\* delay = task.config.retry_delay * (2 ** (task.retries - 1)), for the
\* default retry_delay; task.retries has been incremented
RetryDelayOf(task) == RetryDelay * 2 ^ (task.retries - 1)

\* _handle_task_error without its append to error_history
HandleTaskErrorNoHistory(task) ==
    IF task.retries + 1 < task.config.max_retries
    THEN [task EXCEPT !.retries = @ + 1,
                      !.status = "RETRYING"]
    ELSE [task EXCEPT !.retries = @ + 1,
                      !.status = "FAILED",
                      !.result = [set |-> TRUE, success |-> FALSE,
                                  retries_used |-> task.retries + 1]]

\* _handle_task_error up to its status update
HandleTaskError(task) ==
    IF task.retries + 1 < task.config.max_retries
    THEN [task EXCEPT !.error_history = Append(@, task.retries + 1),
                      !.retries = @ + 1,
                      !.status = "RETRYING"]
    ELSE [task EXCEPT !.error_history = Append(@, task.retries + 1),
                      !.retries = @ + 1,
                      !.status = "FAILED",
                      !.result = [set |-> TRUE, success |-> FALSE,
                                  retries_used |-> task.retries + 1]]

\* the task function raises: _handle_task_error up to the end of its
\* update_task_status(RETRYING) (retry branch), or up to its
\* update_task_status(FAILED)
TaskRaises(w, ok) ==
    /\ workers[w].pc = "exec"
    /\ workers' = [workers EXCEPT
            ![w].task = HandleTaskError(workers[w].task),
            ![w].pc = IF HandleTaskError(workers[w].task).status = "RETRYING"
                      THEN "backoff" ELSE "report",
            ![w].delay = IF HandleTaskError(workers[w].task).status = "RETRYING"
                         THEN RetryDelayOf(HandleTaskError(workers[w].task)) ELSE 0,
            ![w].tasks_failed = IF HandleTaskError(workers[w].task).status = "RETRYING"
                                THEN @ ELSE Counted(@)]
    /\ store' = IF HandleTaskError(workers[w].task).status = "RETRYING"
                THEN UpdateTaskStatus(store, workers[w].task.id, "RETRYING", ok)
                ELSE store
    /\ raised' = IF workers[w].task.func = "probe" THEN raised + 1 ELSE raised
    /\ UNCHANGED <<index, now, running, canc, calls, utc, sweep, mgr, stopc>>

\* the status update that ends _execute_task (COMPLETED, FAILED, TIMEOUT) and
\* its finally clause
ReportOutcome(w, ok) ==
    /\ workers[w].pc = "report"
    /\ store' = UpdateTaskStatus(store, workers[w].task.id, workers[w].task.status, ok)
    /\ workers' = Finally(w)
    /\ UNCHANGED <<index, now, running, canc, calls, raised, utc, sweep, mgr, stopc>>

\* the backoff sleep is over: save_task(task), and the finally clause
RetrySave(w, fp) ==
    /\ workers[w].pc = "backoff"
    /\ store' = SaveStore(store, workers[w].task, fp)
    /\ index' = SaveIndex(index, workers[w].task, now, fp)
    /\ workers' = Finally(w)
    /\ UNCHANGED <<now, running, canc, calls, raised, utc, sweep, mgr, stopc>>

\* one iteration step of worker w's loop, every store call succeeding
WorkerStep(w) ==
    \/ ProcessNextTask(w)
    \/ MarkRunning(w, TRUE)
    \/ TaskReturns(w)
    \/ \E own \in BOOLEAN : TaskTimesOut(w, own)
    \/ TaskRaises(w, TRUE)
    \/ ReportOutcome(w, TRUE)
    \/ RetrySave(w, "none")

\* a worker in the sleep of _process_next_task wakes up after stop(): the
\* loop ends
WorkerExit(w) ==
    /\ workers[w].pc = "poll"
    /\ ~running
    /\ workers' = [workers EXCEPT ![w].pc = "exited"]
    /\ UNCHANGED <<store, index, now, running, canc, calls, raised, utc, sweep, mgr, stopc>>

\* ------------------------------------------------------------------ stop
\* TaskWorker.current_task is set: from the start of _execute_task to its
\* finally clause.  A worker whose poll Redis has answered is not yet in
\* _execute_task.
InFlight(w) == workers[w].current_task # 0

\* the records that are PENDING and that no worker has obtained
PendingUnheld ==
    [id \in Tasks |-> IF /\ store[id].exists
                         /\ store[id].status = "PENDING"
                         /\ \A w \in WorkerIds : workers[w].task.id # id
                      THEN store[id] ELSE Absent]

\* the wait loop of stop() without its deadline
TimedOutNever(left) == FALSE

\* `while time.time() < deadline` is false
TimedOut(left) == left = 0

\* AdvancedTaskQueue.stop up to its wait loop: a call on a manager that is not
\* running returns at once; otherwise running is cleared, and so is the flag
\* of every worker
Stop(timeout) ==
    /\ running
    /\ stopc.pc = "idle"
    /\ running' = FALSE
    /\ stopc' = [pc |-> "wait", left |-> timeout, snap |-> PendingUnheld]
    /\ UNCHANGED <<store, index, now, workers, canc, calls, raised, utc, sweep, mgr>>

\* one test of the wait loop: it ends at the deadline or when no worker has
\* a current task, else it sleeps 0.1 s
StopWait ==
    /\ stopc.pc = "wait"
    /\ stopc' = IF TimedOut(stopc.left) \/ ~(\E w \in WorkerIds : InFlight(w))
                THEN [stopc EXCEPT !.pc = "disconnect", !.left = 0]
                ELSE [stopc EXCEPT !.left = IF @ > 0 THEN @ - 1 ELSE 0]
    /\ UNCHANGED <<store, index, now, running, workers, canc, calls, raised, utc, sweep, mgr>>

\* storage.disconnect(), and stop() returns
StopDisconnect ==
    /\ stopc.pc = "disconnect"
    /\ stopc' = NoStop
    /\ UNCHANGED <<store, index, now, running, workers, canc, calls, raised, utc, sweep, mgr>>

\* --------------------------------------------------------------- cleanup
\* cleanup_old_tasks(older_than_days): its utcnow() is later than every
\* created_at in the store, one day later here
Cleanup(days) ==
    /\ utc < MaxDays
    /\ utc' = utc + 1
    /\ store' = CleanupOldTasks(store, utc + 1 - days)
    /\ sweep' = [days |-> days, deleted |-> Cardinality(Expired(store, utc + 1 - days))]
    /\ UNCHANGED <<index, now, running, workers, canc, calls, raised, mgr, stopc>>

\* the EXPIRE of save_task (7 days) has run out: Redis deletes the hash; a
\* hash that update_task_status created has no expiry
Expire(id) ==
    /\ store[id].exists
    /\ store[id].full
    /\ store' = [store EXCEPT ![id] = Absent]
    /\ UNCHANGED <<index, now, running, workers, canc, calls, raised, utc, sweep, mgr, stopc>>

\* a caller of update_task_status (cancel_task, a worker that holds the
\* task) on an id that save_task has written
UpdateStatusCall(id, status) ==
    /\ store[id].exists \/ \E ty \in TaskTypes : index[ty][id] # NoScore
    /\ store' = UpdateTaskStatus(store, id, status, TRUE)
    /\ UNCHANGED <<index, now, running, workers, canc, calls, raised, utc, sweep, mgr, stopc>>

\* --------------------------------------------------------- specifications
\* Spec: submit, cancel and the workers; the store calls succeed, but for the
\* status update of cancel_task, which may fail
Next ==
    \/ Tick
    \/ Start
    \/ \E id \in Tasks, cfg \in Configs : AddTask(id, "plain", cfg, "none")
    \/ \E id \in Tasks : CancelFetch(id)
    \/ \E ok \in BOOLEAN : CancelUpdate(ok)
    \/ \E w \in WorkerIds : ProcessNextTask(w)
    \/ \E w \in WorkerIds : MarkRunning(w, TRUE)
    \/ \E w \in WorkerIds : TaskReturns(w)
    \/ \E w \in WorkerIds, own \in BOOLEAN : TaskTimesOut(w, own)
    \/ \E w \in WorkerIds : TaskRaises(w, TRUE)
    \/ \E w \in WorkerIds : ReportOutcome(w, TRUE)
    \/ \E w \in WorkerIds : RetrySave(w, "none")

Spec == Init /\ [][Next]_vars

\* SpecRetry: no cancel_task call is ever made; one of the submitted tasks may
\* run the counting task function
NextRetry ==
    \/ Tick
    \/ Start
    \/ \E id \in Tasks, func \in Funcs, cfg \in Configs : AddTask(id, func, cfg, "none")
    \/ \E w \in WorkerIds : ProcessNextTask(w)
    \/ \E w \in WorkerIds : MarkRunning(w, TRUE)
    \/ \E w \in WorkerIds : TaskReturns(w)
    \/ \E w \in WorkerIds, own \in BOOLEAN : TaskTimesOut(w, own)
    \/ \E w \in WorkerIds : TaskRaises(w, TRUE)
    \/ \E w \in WorkerIds : ReportOutcome(w, TRUE)
    \/ \E w \in WorkerIds : RetrySave(w, "none")

SpecRetry == Init /\ [][NextRetry]_vars

\* SpecSingle: Spec with one task submitted
AddOnlyTask(id, cfg) ==
    /\ \A o \in Tasks : ~store[o].exists
    /\ AddTask(id, "plain", cfg, "none")

NextSingle ==
    \/ Tick
    \/ Start
    \/ \E id \in Tasks, cfg \in Configs : AddOnlyTask(id, cfg)
    \/ \E id \in Tasks : CancelFetch(id)
    \/ \E ok \in BOOLEAN : CancelUpdate(ok)
    \/ \E w \in WorkerIds : ProcessNextTask(w)
    \/ \E w \in WorkerIds : MarkRunning(w, TRUE)
    \/ \E w \in WorkerIds : TaskReturns(w)
    \/ \E w \in WorkerIds, own \in BOOLEAN : TaskTimesOut(w, own)
    \/ \E w \in WorkerIds : TaskRaises(w, TRUE)
    \/ \E w \in WorkerIds : ReportOutcome(w, TRUE)
    \/ \E w \in WorkerIds : RetrySave(w, "none")

SpecSingle == Init /\ [][NextSingle]_vars

\* FairSpec: a store that does not fail, no cancel_task call, task functions
\* that always end; asyncio runs start() and every worker coroutine that can
\* take a step
NextFair ==
    \/ Tick
    \/ Start
    \/ \E id \in Tasks, cfg \in Configs : AddTask(id, "plain", cfg, "none")
    \/ \E w \in WorkerIds : WorkerStep(w)

FairSpec ==
    /\ Init
    /\ [][NextFair]_vars
    /\ WF_vars(Start)
    /\ \A w \in WorkerIds : WF_vars(WorkerStep(w))

\* SpecPriority: tasks of the priorities LOW, NORMAL and HIGH, whose functions
\* return; no cancel_task call
Priorities == {LOW, NORMAL, HIGH}
PriorityConfigs == [max_retries : {0}, priority : Priorities, task_type : TaskTypes,
                    timeout : {TRUE}]

NextPriority ==
    \/ Tick
    \/ Start
    \/ \E id \in Tasks, cfg \in PriorityConfigs : AddTask(id, "plain", cfg, "none")
    \/ \E w \in WorkerIds : ProcessNextTask(w)
    \/ \E w \in WorkerIds : MarkRunning(w, TRUE)
    \/ \E w \in WorkerIds : TaskReturns(w)
    \/ \E w \in WorkerIds : ReportOutcome(w, TRUE)

SpecPriority == Init /\ [][NextPriority]_vars

\* SpecSubmit: add_task calls against a store whose save_task may fail at
\* its HSET or at its ZADD
FailPoints == {"none", "dumps", "hset", "zadd"}

NextSubmit ==
    \/ Tick
    \/ \E id \in Tasks, cfg \in Configs, fp \in FailPoints : AddTask(id, "plain", cfg, fp)

SpecSubmit == Init /\ [][NextSubmit]_vars

\* SpecStore: the task store under its callers: add_task with a save that may
\* fail, update_task_status with every status a caller writes, and the expiry
\* of records
StoreConfigs == [max_retries : {0}, priority : {NORMAL}, task_type : TaskTypes,
                 timeout : {TRUE}]

NextStore ==
    \/ \E id \in Tasks, cfg \in StoreConfigs, fp \in FailPoints : AddTask(id, "plain", cfg, fp)
    \/ \E id \in Tasks, status \in Statuses \ {"PENDING"} : UpdateStatusCall(id, status)
    \/ \E id \in Tasks : Expire(id)

SpecStore == Init /\ [][NextStore]_vars

\* SpecSweep: SpecSingle without cancel_task, with cleanup_old_tasks calls
NextSweep ==
    \/ Start
    \/ \E id \in Tasks, cfg \in Configs : AddOnlyTask(id, cfg)
    \/ \E days \in 0..MaxDays : Cleanup(days)
    \/ \E w \in WorkerIds : ProcessNextTask(w)
    \/ \E w \in WorkerIds : MarkRunning(w, TRUE)
    \/ \E w \in WorkerIds : TaskReturns(w)
    \/ \E w \in WorkerIds, own \in BOOLEAN : TaskTimesOut(w, own)
    \/ \E w \in WorkerIds : TaskRaises(w, TRUE)
    \/ \E w \in WorkerIds : ReportOutcome(w, TRUE)
    \/ \E w \in WorkerIds : RetrySave(w, "none")

SpecSweep == Init /\ [][NextSweep]_vars

\* SpecRace: the workers and one task, which runs the counting function
AddOnlyProbe(id, cfg) ==
    /\ \A o \in Tasks : ~store[o].exists
    /\ AddTask(id, "probe", cfg, "none")

NextRace ==
    \/ Start
    \/ \E id \in Tasks, cfg \in Configs : AddOnlyProbe(id, cfg)
    \/ \E w \in WorkerIds : ProcessNextTask(w)
    \/ \E w \in WorkerIds : MarkRunning(w, TRUE)
    \/ \E w \in WorkerIds : TaskReturns(w)
    \/ \E w \in WorkerIds, own \in BOOLEAN : TaskTimesOut(w, own)
    \/ \E w \in WorkerIds : TaskRaises(w, TRUE)
    \/ \E w \in WorkerIds : ReportOutcome(w, TRUE)
    \/ \E w \in WorkerIds : RetrySave(w, "none")

SpecRace == Init /\ [][NextRace]_vars

\* SpecLife: a manager built with any concurrency up to NumWorkers, with or
\* without monitoring; start and stop calls, the workers, and one task,
\* whose function returns or goes on running
InitLife == \E concurrency \in 0..NumWorkers, monitoring \in BOOLEAN :
                InitWith(concurrency, monitoring)

NextLife ==
    \/ Start
    \/ \E timeout \in 0..MaxStopWait : Stop(timeout)
    \/ StopWait
    \/ StopDisconnect
    \/ \E id \in Tasks, cfg \in StoreConfigs : AddOnlyTask(id, cfg)
    \/ \E w \in WorkerIds : WorkerExit(w)
    \/ \E w \in WorkerIds : ProcessNextTask(w)
    \/ \E w \in WorkerIds : MarkRunning(w, TRUE)
    \/ \E w \in WorkerIds : TaskReturns(w)
    \/ \E w \in WorkerIds : ReportOutcome(w, TRUE)

SpecLife == InitLife /\ [][NextLife]_vars

\* FairLife: asyncio runs the stop() coroutine whenever it can take a step;
\* nothing is assumed of the workers or of the task functions
FairLife ==
    /\ InitLife
    /\ [][NextLife]_vars
    /\ WF_vars(StopWait)
    /\ WF_vars(StopDisconnect)

\* SpecStale: the workers and one task at a time, which may be retried more
\* than once before it fails for good; its record may expire
RetryConfigs == [max_retries : {MaxRetriesBound + 1}, priority : {NORMAL},
                 task_type : TaskTypes, timeout : {TRUE}]

NextStale ==
    \/ Start
    \/ \E id \in Tasks, cfg \in RetryConfigs : AddOnlyTask(id, cfg)
    \/ \E id \in Tasks : Expire(id)
    \/ \E w \in WorkerIds : ProcessNextTask(w)
    \/ \E w \in WorkerIds : MarkRunning(w, TRUE)
    \/ \E w \in WorkerIds : TaskReturns(w)
    \/ \E w \in WorkerIds, own \in BOOLEAN : TaskTimesOut(w, own)
    \/ \E w \in WorkerIds : TaskRaises(w, TRUE)
    \/ \E w \in WorkerIds : ReportOutcome(w, TRUE)
    \/ \E w \in WorkerIds : RetrySave(w, "none")

SpecStale == Init /\ [][NextStale]_vars

\* SpecTimeout: the workers and one task, with or without a configured
\* timeout
TimeoutConfigs == [max_retries : 0..MaxRetriesBound, priority : {NORMAL},
                   task_type : TaskTypes, timeout : BOOLEAN]

NextTimeout ==
    \/ Start
    \/ \E id \in Tasks, cfg \in TimeoutConfigs : AddOnlyTask(id, cfg)
    \/ \E w \in WorkerIds : ProcessNextTask(w)
    \/ \E w \in WorkerIds : MarkRunning(w, TRUE)
    \/ \E w \in WorkerIds : TaskReturns(w)
    \/ \E w \in WorkerIds, own \in BOOLEAN : TaskTimesOut(w, own)
    \/ \E w \in WorkerIds : TaskRaises(w, TRUE)
    \/ \E w \in WorkerIds : ReportOutcome(w, TRUE)
    \/ \E w \in WorkerIds : RetrySave(w, "none")

SpecTimeout == Init /\ [][NextTimeout]_vars

\* SpecHistory: the workers and one task whose function raises or returns
NextHistory ==
    \/ Start
    \/ \E id \in Tasks, cfg \in RetryConfigs : AddOnlyTask(id, cfg)
    \/ \E w \in WorkerIds : ProcessNextTask(w)
    \/ \E w \in WorkerIds : MarkRunning(w, TRUE)
    \/ \E w \in WorkerIds : TaskReturns(w)
    \/ \E w \in WorkerIds : TaskRaises(w, TRUE)
    \/ \E w \in WorkerIds : ReportOutcome(w, TRUE)
    \/ \E w \in WorkerIds, fp \in FailPoints : RetrySave(w, fp)

SpecHistory == Init /\ [][NextHistory]_vars

\* SpecFaulty: the workers and one task over a store that fails: the poll may
\* raise, and every status update and save may report failure
NextFaulty ==
    \/ Start
    \/ \E id \in Tasks, cfg \in RetryConfigs : AddOnlyTask(id, cfg)
    \/ \E w \in WorkerIds : ProcessNextTask(w)
    \/ \E w \in WorkerIds : PollRaises(w)
    \/ \E w \in WorkerIds, ok \in BOOLEAN : MarkRunning(w, ok)
    \/ \E w \in WorkerIds : TaskReturns(w)
    \/ \E w \in WorkerIds, own \in BOOLEAN : TaskTimesOut(w, own)
    \/ \E w \in WorkerIds, ok \in BOOLEAN : TaskRaises(w, ok)
    \/ \E w \in WorkerIds, ok \in BOOLEAN : ReportOutcome(w, ok)
    \/ \E w \in WorkerIds, fp \in FailPoints : RetrySave(w, fp)

SpecFaulty == Init /\ [][NextFaulty]_vars

\* the sum of a counter of the workers' stats over the workers 1..n
RECURSIVE SumStats(_, _)
SumStats(ws, n) == IF n = 0 THEN 0 ELSE ws[n] + SumStats(ws, n - 1)

\* AdvancedTaskQueue.get_queue_stats: running; workers = len(self.workers),
\* the list that start() appends to and that nothing clears; worker_stats,
\* read from every worker; total_stats = self.stats of the manager
GetQueueStats ==
    [running |-> running,
     workers |-> mgr.loops,
     worker_stats |-> [w \in WorkerIds |->
                          [current_task |-> workers[w].current_task,
                           tasks_completed |-> workers[w].tasks_completed,
                           tasks_failed |-> workers[w].tasks_failed]],
     total_stats |-> [total_tasks_added |-> mgr.total_tasks_added,
                      total_tasks_completed |-> mgr.total_tasks_completed,
                      total_tasks_failed |-> mgr.total_tasks_failed]]

\* SpecDownload: download tasks, as upload_from_link submits them, run by the
\* workers.
\* TaskConfig(task_type=FILE_DOWNLOAD, max_retries=1, timeout=3600) of
\* upload_from_link (one partition stands for file_download)
DownloadConfigs == [max_retries : {1}, priority : {NORMAL}, task_type : TaskTypes,
                    timeout : {TRUE}]

\* what can go wrong in a call of process_download_from_url_task: creating the
\* aiohttp session in get_download_worker; DatabaseManager.initialize (its
\* health check re-raises) on entering get_session; inside the try, the URL
\* check of get_remote_file_info, check_active_subscription,
\* check_user_limits, the download, the insert of the File row; the commit
\* that get_session makes after the body, on leaving the `async with`
DownloadFailures == {"none", "get_download_worker", "initialize", "unsafe_url",
                     "subscription_expired", "limit_exceeded", "download", "db_add",
                     "session_commit"}

\* process_download_from_url_task: the try inside the `async with` returns
\* {"success": False, "error": ...} for every Exception of its body; what is
\* raised before the try or by the context manager's exit leaves the function
ProcessDownloadFromUrlTask(fail) ==
    [raises |-> fail \in {"get_download_worker", "initialize", "session_commit"},
     success |-> fail = "none"]

\* upload_from_link: add_task(process_download_from_url_task, config=...)
AddDownloadTask(id, cfg) == AddTask(id, "download", cfg, "none")

\* _execute_task awaits the download function: a returned value, whatever its
\* "success", is the result of a COMPLETED task; an exception goes to
\* _handle_task_error
DownloadTaskRuns(w, fail) ==
    /\ workers[w].task.func = "download"
    /\ IF ProcessDownloadFromUrlTask(fail).raises THEN TaskRaises(w, TRUE) ELSE TaskReturns(w)

NextDownload ==
    \/ Start
    \/ \E id \in Tasks, cfg \in DownloadConfigs : AddDownloadTask(id, cfg)
    \/ \E w \in WorkerIds : ProcessNextTask(w)
    \/ \E w \in WorkerIds : MarkRunning(w, TRUE)
    \/ \E w \in WorkerIds, fail \in DownloadFailures : DownloadTaskRuns(w, fail)
    \/ \E w \in WorkerIds : TaskTimesOut(w, FALSE)
    \/ \E w \in WorkerIds : ReportOutcome(w, TRUE)

SpecDownload == Init /\ [][NextDownload]_vars

\* SpecSlot: start, stop and the workers with one task that is retried once,
\* every outcome of the task function
SlotConfigs == [max_retries : {2}, priority : {NORMAL}, task_type : TaskTypes,
                timeout : {TRUE}]

NextSlot ==
    \/ Start
    \/ \E timeout \in 0..MaxStopWait : Stop(timeout)
    \/ StopWait
    \/ StopDisconnect
    \/ \E id \in Tasks, cfg \in SlotConfigs : AddOnlyTask(id, cfg)
    \/ \E w \in WorkerIds : WorkerExit(w)
    \/ \E w \in WorkerIds : ProcessNextTask(w)
    \/ \E w \in WorkerIds : MarkRunning(w, TRUE)
    \/ \E w \in WorkerIds : TaskReturns(w)
    \/ \E w \in WorkerIds, own \in BOOLEAN : TaskTimesOut(w, own)
    \/ \E w \in WorkerIds : TaskRaises(w, TRUE)
    \/ \E w \in WorkerIds : ReportOutcome(w, TRUE)
    \/ \E w \in WorkerIds : RetrySave(w, "none")

SpecSlot == Init /\ [][NextSlot]_vars

\* SpecStats: SpecTimeout with the workers' counters followed
InitStats ==
    /\ store = [id \in Tasks |-> Absent]
    /\ index = [ty \in TaskTypes |-> [id \in Tasks |-> NoScore]]
    /\ now = 0
    /\ running = FALSE
    /\ workers = [w \in WorkerIds |-> IdleWorker("none")]
    /\ canc = NoCancel
    /\ calls = 0
    /\ raised = 0
    /\ utc = 0
    /\ sweep = NoSweep
    /\ mgr = [NewManager(NumWorkers, TRUE) EXCEPT !.stats_followed = TRUE]
    /\ stopc = NoStop

SpecStats == InitStats /\ [][NextTimeout]_vars

\* ------------------------------------------------------------------ claims
\* the edges of the status state machine
Edges == {<<"PENDING", "RUNNING">>, <<"RUNNING", "COMPLETED">>, <<"RUNNING", "RETRYING">>,
          <<"RUNNING", "FAILED">>, <<"RUNNING", "TIMEOUT">>, <<"RETRYING", "RUNNING">>,
          <<"PENDING", "CANCELLED">>, <<"RETRYING", "CANCELLED">>}

\* C1: the stored status of a task is PENDING right after submit, and every
\* later change of the stored status is one of the edges of the state machine.
C1_OnlyTableEdges ==
    [][\A id \in Tasks :
          /\ (~store[id].exists /\ store'[id].exists) => store'[id].status = "PENDING"
          /\ (store[id].exists /\ store'[id].status # store[id].status)
                => <<store[id].status, store'[id].status>> \in Edges]_vars

\* C2: once the stored status of a task is COMPLETED, FAILED, CANCELLED or
\* TIMEOUT, no step changes its stored status, retries or error_history.
C2_TerminalAbsorbing ==
    [][\A id \in Tasks :
          (store[id].exists /\ store[id].status \in Terminal)
                => /\ store'[id].status = store[id].status
                   /\ store'[id].retries = store[id].retries
                   /\ store'[id].error_history = store[id].error_history]_vars

\* C3: with workers running, a store that does not fail and task functions
\* that always end, every task saved as PENDING and never cancelled eventually
\* reaches a terminal status.  (Where it fails the workers are still
\* polling: each poll finds a finished id at the head of the partition and
\* returns nothing, which changes no variable.)
C3_EveryTaskFinishes ==
    \A id \in Tasks :
        (store[id].exists /\ store[id].status = "PENDING")
            ~> (store[id].status \in Terminal)

\* C4: a task for which cancel returned true after fetching it as PENDING
\* never becomes RUNNING: its stored status stays CANCELLED.
C4_CancelledPendingNeverRuns ==
    (canc.ret = "true" /\ canc.wrote /\ canc.fetched = "PENDING")
        => store[canc.id].status = "CANCELLED"

\* C5: cancel returns true exactly when the task exists and its fetched status
\* is PENDING or RETRYING; when it returns true, CANCELLED is in the store;
\* when it returns false, the store is unchanged.
C5_CancelReturn ==
    [][/\ (canc.pc = "ready" /\ canc'.pc = "fetched")
            => Fetched(store, canc'.id) \in {"PENDING", "RETRYING"}
       /\ (canc.pc = "ready" /\ canc'.pc = "ready" /\ canc' # canc)
            => /\ canc'.ret = "false"
               /\ Fetched(store, canc'.id) \notin {"PENDING", "RETRYING"}
               /\ store' = store
       /\ (canc.pc = "fetched" /\ canc'.pc = "ready")
            => /\ canc'.ret = "true"
               /\ store'[canc.id].status = "CANCELLED"]_vars

\* C6: a cancel call on a task whose stored status is RUNNING returns false
\* and writes nothing, and a stored status becomes CANCELLED only by the
\* status update of a cancel call that fetched PENDING or RETRYING: the call
\* on the RUNNING task leaves the task to the outcome of its execution.
C6_CancelRunningRefused ==
    [][/\ \A id \in Tasks :
            (canc.pc = "ready" /\ canc' # canc /\ canc'.id = id
                    /\ store[id].exists /\ store[id].status = "RUNNING")
                => (canc'.pc = "ready" /\ canc'.ret = "false" /\ store' = store)
       /\ \A id \in Tasks :
            (store'[id].status = "CANCELLED" /\ store[id].status # "CANCELLED")
                => (canc.pc = "fetched" /\ canc.id = id
                        /\ canc.fetched \in {"PENDING", "RETRYING"})]_vars

\* a cancel call has just returned false for a task that a worker is running
C6_Witness ==
    /\ canc.ret = "false"
    /\ canc.id # 0
    /\ store[canc.id].exists
    /\ store[canc.id].status = "RUNNING"
    /\ \E w \in WorkerIds : workers[w].pc = "exec" /\ workers[w].task.id = canc.id

\* C7: a task for which cancel returned true after fetching it as RETRYING
\* is not claimed again: its stored status stays CANCELLED.
C7_CancelledRetryingNeverRuns ==
    (canc.ret = "true" /\ canc.wrote /\ canc.fetched = "RETRYING")
        => store[canc.id].status = "CANCELLED"

\* C8: a never-cancelled task with max_retries = N whose function has raised
\* on every call is FAILED after exactly N+1 calls, with error_history of
\* length N+1 and result.retries_used = N.
C8_FailedAfterNPlusOne ==
    \A w \in WorkerIds :
        (workers[w].pc = "report" /\ workers[w].task.status = "FAILED"
                /\ workers[w].task.func = "probe" /\ raised = calls)
            => /\ calls = workers[w].task.config.max_retries + 1
               /\ Len(workers[w].task.error_history) = workers[w].task.config.max_retries + 1
               /\ workers[w].task.result.retries_used = workers[w].task.config.max_retries

\* C9: a task with max_retries = N whose function raised on its first K < N
\* calls and returns on call K+1 (made after those K calls had raised) is
\* COMPLETED with result.success true and result.retries_used = K.
C9_CompletedAfterKFailures ==
    \A w \in WorkerIds :
        (workers[w].pc = "report" /\ workers[w].task.status = "COMPLETED"
                /\ workers[w].task.func = "probe" /\ calls = raised + 1
                /\ workers[w].seen = raised
                /\ raised < workers[w].task.config.max_retries)
            => /\ workers[w].task.result.success
               /\ workers[w].task.result.retries_used = raised

\* C10: a task in status FAILED has retries <= config.max_retries.
C10_FailedWithinMaxRetries ==
    \A w \in WorkerIds :
        (workers[w].pc = "report" /\ workers[w].task.status = "FAILED")
            => workers[w].task.retries <= workers[w].task.config.max_retries

\* C11: a task whose stored status is COMPLETED, FAILED, CANCELLED or TIMEOUT
\* has a result (and a completed_at, which is stored the same way) in the
\* record that get_task returns for it.
C11_TerminalHasResult ==
    \A id \in Tasks :
        (GetTask(store, id).id # 0 /\ GetTask(store, id).status \in Terminal)
            => GetTask(store, id).result.set

\* C13: a task whose execution timed out ends in TIMEOUT with result.success
\* false, and once TIMEOUT is its stored status no worker starts its function
\* again.
C13_TimeoutNotExecutedAgain ==
    [][\A w \in WorkerIds :
          /\ (workers[w].pc = "exec" /\ workers'[w].task.status = "TIMEOUT")
                => (workers'[w].task.result.set /\ ~workers'[w].task.result.success)
          /\ (workers[w].pc = "claimed" /\ workers'[w].pc = "exec")
                => ~(store[workers[w].task.id].exists
                        /\ store[workers[w].task.id].status = "TIMEOUT")]_vars

\* C12: among the eligible tasks of one task_type, get_pending_tasks offers
\* a task of higher priority before one of lower priority: the task a worker
\* obtains has the highest priority of the eligible tasks of its type.
C12_HigherPriorityFirst ==
    [][\A w \in WorkerIds :
          (workers[w].pc = "poll" /\ workers'[w].pc = "claimed")
            => \A o \in Tasks :
                  (/\ GetTask(store, o).id # 0
                   /\ GetTask(store, o).status \in {"PENDING", "RETRYING"}
                   /\ GetTask(store, o).config.task_type
                        = workers'[w].task.config.task_type
                   /\ index[workers'[w].task.config.task_type][o] # NoScore)
                  => GetTask(store, o).config.priority
                        <= workers'[w].task.config.priority]_vars

C16_CleanupExact ==
    [][utc' # utc =>
        /\ \A id \in Tasks :
              IF store[id].exists /\ store[id].full
                    /\ store[id].created_at < utc' - sweep'.days
              THEN ~store'[id].exists
              ELSE store'[id] = store[id]
        /\ sweep'.deleted
              = Cardinality({id \in Tasks : store[id].exists /\ ~store'[id].exists})
        /\ sweep'.days = 0 => \A id \in Tasks : ~store'[id].exists
        /\ (\A id \in Tasks : store[id].exists /\ store[id].full
                                => utc' - store[id].created_at < sweep'.days)
              => (store' = store /\ sweep'.deleted = 0)]_vars

\* C17: the claim race: a PENDING task that one worker has obtained from
\* get_pending_tasks and not yet marked RUNNING is still what
\* get_pending_tasks(1) returns to any other worker, so that two workers can
\* hold it and call its function twice (the state C17_Witness).
C17_ClaimRace ==
    \A w \in WorkerIds :
        (/\ workers[w].pc = "claimed"
         /\ store[workers[w].task.id].exists
         /\ store[workers[w].task.id].status = "PENDING")
            => workers[w].task.id \in GetPendingTasks(store, index, 1)

\* two workers are in the first call of the function of the same task, which
\* both obtained while it was PENDING
C17_Witness ==
    \E v \in WorkerIds, w \in WorkerIds :
        /\ v # w
        /\ workers[v].pc = "exec"
        /\ workers[w].pc = "exec"
        /\ workers[v].task.id = workers[w].task.id
        /\ workers[v].task.func = "probe"
        /\ workers[v].task.retries = 0
        /\ workers[w].task.retries = 0
        /\ calls = 2
        /\ raised = 0

\* C18: start() on a manager that is not running creates exactly concurrency
\* worker loops, and one monitoring loop when monitoring is enabled; while the
\* manager is running no step creates a loop: a start() call then changes
\* nothing.
C18_StartIdempotent ==
    [][/\ (~running /\ running')
            => /\ mgr'.loops = mgr.loops + mgr.concurrency
               /\ mgr'.monitors = mgr.monitors + (IF mgr.monitoring THEN 1 ELSE 0)
               /\ Cardinality({w \in WorkerIds : workers'[w].pc = "poll"})
                    = mgr.concurrency
       /\ running => (mgr'.loops = mgr.loops /\ mgr'.monitors = mgr.monitors)
       /\ (mgr'.loops # mgr.loops \/ mgr'.monitors # mgr.monitors)
            => (~running /\ running')]_vars

\* a manager with NumWorkers workers and monitoring has been started, stopped
\* and started again
C18_Witness ==
    /\ running
    /\ mgr.concurrency = NumWorkers
    /\ mgr.monitoring
    /\ mgr.loops = NumWorkers + NumWorkers
    /\ mgr.monitors = 2
    /\ \A w \in WorkerIds : workers[w].pc = "poll"

\* C19: a stop() call that has cleared running returns: its wait loop sleeps
\* only while a worker has a current task and the deadline has not come, so
\* it ends with no worker and with no task in flight at its first test, and
\* at the deadline when a task function never returns.
C19_StopTerminates ==
    /\ (stopc.pc = "wait") ~> (stopc.pc = "idle")
    /\ [][(stopc.pc = "wait" /\ stopc'.pc = "wait" /\ stopc' # stopc)
            => /\ stopc'.left < stopc.left
               /\ \E w \in WorkerIds : workers[w].pc \in {"exec", "report", "backoff"}]_vars

\* the deadline of a stop() call has come while a task function is still
\* running
C19_Witness ==
    /\ ~running
    /\ stopc.pc = "wait"
    /\ stopc.left = 0
    /\ \E w \in WorkerIds : workers[w].pc = "exec"

\* C20: once stop() has returned, no worker of the manager moves a task to
\* RUNNING and starts its function.
C20_NoClaimAfterStop ==
    [][(~running /\ stopc.pc = "idle" /\ mgr.loops > 0)
            => \A w \in WorkerIds :
                    ~(workers[w].pc = "claimed" /\ workers'[w].pc = "exec")]_vars

\* C21: when stop() returns, every record that was PENDING in the store, and
\* in the hands of no worker, when stop() was called is in the store as it
\* was: PENDING, with the same function, config and the other fields.
C21_StopKeepsPending ==
    [][(stopc.pc = "disconnect" /\ stopc'.pc = "idle")
            => \A id \in Tasks :
                    stopc.snap[id].exists => store'[id] = stopc.snap[id]]_vars

\* C22: get_task after save_task returns a task equal to the saved one in
\* every field: here for the task a worker saves after its backoff sleep,
\* whose status, retries, error_history, config, created_at, result and
\* worker_id are compared.
C22_SaveGetRoundTrip ==
    [][\A w \in WorkerIds :
          (workers[w].pc = "backoff" /\ workers'[w].pc # "backoff")
            => GetTask(store', workers[w].task.id) = workers[w].task]_vars

\* C23: the backoff a worker waits after the i-th failed call of a task's
\* function, a further attempt being allowed, is retry_delay * 2^(i-1); the
\* i-th call is one made after the i-1 calls before it had all raised.
C23_BackoffDoubles ==
    [][\A w \in WorkerIds :
          (/\ workers[w].pc = "exec"
           /\ workers'[w].pc = "backoff"
           /\ workers[w].task.func = "probe"
           /\ workers[w].seen = raised
           /\ calls = raised + 1)
            => workers'[w].delay = RetryDelay * 2 ^ (raised' - 1)]_vars

\* C24: from the moment a worker has recorded RETRYING for a failed attempt
\* to the end of that attempt's backoff sleep, no worker obtains the task
\* from get_pending_tasks and none moves it to RUNNING.
C24_NoClaimDuringBackoff ==
    [][\A v \in WorkerIds, w \in WorkerIds :
          (/\ workers[v].pc = "backoff"
           /\ store[workers[v].task.id].status = "RETRYING")
            => /\ ~(/\ workers[w].pc = "poll"
                    /\ workers'[w].pc = "claimed"
                    /\ workers'[w].task.id = workers[v].task.id)
               /\ ~(/\ workers[w].pc = "claimed"
                    /\ workers'[w].pc = "exec"
                    /\ workers[w].task.id = workers[v].task.id)]_vars

\* C25: the stored retries of a task never decreases, and every stored
\* error_history has the one stored before it as a prefix.
C25_RetriesMonotone ==
    [][\A id \in Tasks :
          (store[id].exists /\ store'[id].exists)
            => /\ store'[id].retries >= store[id].retries
               /\ Len(store'[id].error_history) >= Len(store[id].error_history)
               /\ SubSeq(store'[id].error_history, 1, Len(store[id].error_history))
                    = store[id].error_history]_vars

\* C26: get_pending_tasks(limit) returns tasks of one partition only, the
\* first in TaskType order that holds an eligible (PENDING or RETRYING) task
\* at any position of its sorted set, and returns nothing only when no
\* partition holds an eligible task.
C26_FirstPartitionWithEligible ==
    \A limit \in 1..MaxLimit :
        LET holds(ty) == \E id \in Members(index, ty) :
                            /\ GetTask(store, id).id # 0
                            /\ GetTask(store, id).status \in {"PENDING", "RETRYING"}
            got == GetPendingTasks(store, index, limit)
        IN  /\ (got = {}) <=> (\A ty \in TaskTypes : ~holds(ty))
            /\ \A ty \in TaskTypes :
                  (holds(ty) /\ \A lower \in TaskTypes : lower < ty => ~holds(lower))
                      => got \subseteq Members(index, ty)

\* C27: a task's status becomes TIMEOUT only if the task has a configured
\* timeout (which elapsed while its function was running); an error that the
\* function raises is handled by the retry policy, never recorded as TIMEOUT.
C27_TimeoutOnlyWhenConfigured ==
    [][\A w \in WorkerIds :
          (workers[w].pc = "exec" /\ workers'[w].task.status = "TIMEOUT")
            => workers[w].task.config.timeout]_vars

\* C28: in every task record, the stored one and the copy a worker holds, the
\* length of error_history equals retries.
C28_HistoryLengthIsRetries ==
    /\ \A id \in Tasks :
          (store[id].exists /\ store[id].full)
            => Len(store[id].error_history) = store[id].retries
    /\ \A id \in Tasks :
          GetTask(store, id).id # 0
            => Len(GetTask(store, id).error_history) = GetTask(store, id).retries
    /\ \A w \in WorkerIds :
          Len(workers[w].task.error_history) = workers[w].task.retries

\* a stored record with two failed attempts while a worker sleeps in the
\* backoff of the first attempt of its older copy
C28_Witness ==
    \E id \in Tasks, w \in WorkerIds :
        /\ store[id].exists
        /\ store[id].retries = 2
        /\ store[id].error_history = <<1, 2>>
        /\ workers[w].pc = "backoff"
        /\ workers[w].task.id = id
        /\ workers[w].task.retries = 1
        /\ workers[w].task.error_history = <<1>>

\* C29: within one task_type and one priority, eligible tasks are offered in
\* the order of their submission: when a task is submitted while an earlier
\* task of its type and priority is eligible, get_pending_tasks(1) goes on
\* offering the earlier task, not the new one.
C29_FifoWithinPriority ==
    [][\A a \in Tasks, b \in Tasks, ty \in TaskTypes :
          (/\ a # b
           /\ index[ty][a] # NoScore
           /\ GetTask(store, a).id # 0
           /\ GetTask(store, a).status \in {"PENDING", "RETRYING"}
           /\ index[ty][b] = NoScore
           /\ ~store[b].exists
           /\ index'[ty][b] # NoScore
           /\ GetTask(store', b).id # 0
           /\ GetTask(store', b).config.priority = GetTask(store, a).config.priority)
            => b \notin GetPendingTasks(store', index', 1)]_vars

\* C30: a status write never creates a record: every key present in the store
\* holds a complete record, which get_task returns.
C30_StatusWriteCreatesNothing ==
    \A id \in Tasks :
        store[id].exists => (store[id].full /\ GetTask(store, id).id = id)

\* C31: a failing store never stops a worker: while the manager is running,
\* no started worker loop has ended, and every step that ends an iteration
\* (a poll that raises or finds nothing, the last status update of an attempt
\* or the save after the backoff, whether the store reports success or
\* failure) leaves the worker in a further poll with its current-task marker
\* cleared.
C31_FailingStoreKeepsWorker ==
    [][\A w \in WorkerIds :
          /\ (running' /\ workers'[w].pc # "none") => workers'[w].pc # "exited"
          /\ (/\ running'
              /\ workers[w].pc \in {"poll", "report", "backoff"}
              /\ workers'[w] # workers[w]
              /\ workers'[w].pc # "claimed")
                => (/\ workers'[w].pc = "poll"
                    /\ workers'[w].current_task = 0
                    /\ workers'[w].task = NoTask)]_vars

\* the last status update of an attempt has failed (the record is RUNNING and
\* no worker holds the task) and the workers poll again
C31_Witness ==
    /\ running
    /\ \A w \in WorkerIds : workers[w].pc = "poll" /\ workers[w].current_task = 0
    /\ \E id \in Tasks : store[id].exists /\ store[id].status = "RUNNING"

\* C32: the priority index is consistent with the records: every task id in
\* the sorted set of a task_type has a record, whose status is not terminal.
C32_IndexHoldsLiveRecords ==
    \A ty \in TaskTypes, id \in Tasks :
        index[ty][id] # NoScore =>
            (/\ store[id].exists
             /\ store[id].status \notin Terminal)

\* C33: started_at is set once, by the first claim of the task: the task that
\* a worker has obtained for a retry attempt (retries > 0) carries the
\* started_at of the first attempt, and the start of the attempt leaves it
\* unchanged.
C33_StartedAtSetOnce ==
    [][\A w \in WorkerIds :
          (/\ workers[w].pc = "claimed"
           /\ workers'[w].pc = "exec"
           /\ workers[w].task.retries > 0)
            => (/\ workers[w].task.started_at # NoTime
                /\ workers'[w].task.started_at = workers[w].task.started_at)]_vars

\* C34: while the manager is running, get_queue_stats reports exactly
\* `concurrency` workers, after any sequence of start() and stop() calls.
C34_WorkersIsConcurrency ==
    GetQueueStats.running => GetQueueStats.workers = mgr.concurrency

\* C35: a failed submit leaves the store unchanged: an add_task call whose
\* save failed (total_tasks_added is not incremented, the call raises) leaves
\* no record and no index entry behind.
C35_FailedSubmitLeavesNothing ==
    [][mgr'.total_tasks_added = mgr.total_tasks_added
          => (store' = store /\ index' = index)]_vars

\* C36: the download task function never raises to the worker, so the record
\* of a download task is never RETRYING or FAILED.
C36_DownloadNeverFails ==
    \A id \in Tasks :
        (store[id].exists /\ store[id].func = "download")
            => store[id].status \notin {"RETRYING", "FAILED"}

\* C37: a worker owns one execution slot: its current-task marker is set, to
\* the task it holds, exactly from the start of an attempt until the outcome
\* of the attempt has been written (the backoff sleep and the save after it
\* included) and is clear whenever the worker polls or has ended; a worker
\* leaves its backoff only into a new poll or the end of its loop, with the
\* marker cleared; and the wait of stop() does not end before its deadline
\* while a worker is in an attempt or in its backoff.
C37_OneExecutionSlot ==
    [][/\ \A w \in WorkerIds :
            /\ workers'[w].current_task # 0
                  <=> workers'[w].pc \in {"exec", "report", "backoff"}
            /\ workers'[w].current_task # 0
                  => workers'[w].task.id = workers'[w].current_task
            /\ (workers[w].pc = "backoff" /\ workers'[w].pc # "backoff")
                  => (/\ workers'[w].pc \in {"poll", "exited"}
                      /\ workers'[w].current_task = 0
                      /\ workers'[w].task = NoTask)
       /\ (/\ stopc.pc = "wait"
           /\ stopc.left > 0
           /\ \E w \in WorkerIds : workers[w].pc \in {"exec", "report", "backoff"})
            => stopc'.pc = "wait"]_vars

\* stop() is in its wait loop, its deadline not reached, while a worker
\* sleeps in the backoff of a failed attempt with its marker set
C37_Witness ==
    /\ stopc.pc = "wait"
    /\ stopc.left > 0
    /\ \E w \in WorkerIds :
            /\ workers[w].pc = "backoff"
            /\ workers[w].current_task = workers[w].task.id
            /\ workers[w].current_task # 0

\* C38: in every snapshot of get_queue_stats, total_tasks_completed is the sum
\* of the workers' tasks_completed and total_tasks_failed is the sum of the
\* workers' tasks_failed.
C38_TotalsAreWorkerSums ==
    /\ GetQueueStats.total_stats.total_tasks_completed =
          SumStats([w \in WorkerIds |-> GetQueueStats.worker_stats[w].tasks_completed],
                   NumWorkers)
    /\ GetQueueStats.total_stats.total_tasks_failed =
          SumStats([w \in WorkerIds |-> GetQueueStats.worker_stats[w].tasks_failed],
                   NumWorkers)

====
